---------------------------- MODULE Spec2Model ----------------------------
(***************************************************************************)
(* Recursive radix-2 Cooley-Tukey FFT (fft/go/fft) and the Go command-line *)
(* harness that drives it.                                                 *)
(*                                                                         *)
(* Numbers.  The program computes in float64.  The twiddle factors and the *)
(* normalisation factor it needs for lengths 1, 2, 4, 8 and 16 are the     *)
(* cosines of multiples of pi/8 and 1/sqrt(n); they all lie in the real    *)
(* number field Q(c), c = 2*cos(pi/8) = sqrt(2 + sqrt 2), c^4 = 4c^2 - 2.  *)
(* A float64 is modelled by the real number it stands for, as an element   *)
(*   (a0 + a1*c + a2*c^2 + a3*c^3) / 2^e                                   *)
(* of that field, written <<a0, a1, a2, a3, e>> in lowest terms, and the   *)
(* float64 operations by the exact field operations: the rounding error of *)
(* each operation (at most one unit in the 53rd binary place) is not       *)
(* modelled, so an equality below is an equality of the real numbers the   *)
(* program approximates.  A float64 whose real value lies outside the      *)
(* field (the cosine of 2*pi/3, a rounded synthetic sample) is carried as  *)
(* the value Opaque, which every operation propagates.                     *)
(***************************************************************************)
EXTENDS Integers, Sequences, FiniteSets, TLC

---------------------------------------------------------------------------
(* Bounds of the model.                                                    *)

\* direct calls of FFT are explored for the lengths 2^0 .. 2^MaxLog
MaxLog == 3

\* direct calls of FFT are also explored for every length in 0 .. MaxBadLen
\* that is not a power of two
MaxBadLen == 7

\* the harness is run with every size exponent 0 .. MaxExp
MaxExp == 2

\* frames the goroutine stack can hold before the runtime aborts
MaxStack == 8

---------------------------------------------------------------------------
(* float64 as exact elements of Q(c).                                      *)

Opaque == <<0, 0, 0, 0, -1>>

IsOpaque(x) == x[5] < 0

AllEven(x) == \A k \in 1..4 : x[k] % 2 = 0

\* the tuples that stand for a float64
Float == Int \X Int \X Int \X Int \X Int

\* a fraction in lowest terms: common factors 2 are cancelled
Norm[x \in Float] ==
    IF x[5] > 0 /\ AllEven(x)
    THEN Norm[<<x[1] \div 2, x[2] \div 2, x[3] \div 2, x[4] \div 2, x[5] - 1>>]
    ELSE x

FromInt(k) == <<k, 0, 0, 0, 0>>

Zero == FromInt(0)

One == FromInt(1)

\* x with numerator and denominator multiplied by 2^d
Lift(x, d) == <<x[1] * 2^d, x[2] * 2^d, x[3] * 2^d, x[4] * 2^d, x[5] + d>>

Max(a, b) == IF a >= b THEN a ELSE b

\* the sum of the pair p of float64
Sum[p \in Float \X Float] ==
    LET x == p[1]
        y == p[2]
        m == Max(x[5], y[5])
        u == Lift(x, m - x[5])
        v == Lift(y, m - y[5])
    IN  IF IsOpaque(x) \/ IsOpaque(y) THEN Opaque
        ELSE Norm[<<u[1] + v[1], u[2] + v[2], u[3] + v[3], u[4] + v[4], m>>]

\* the product of the pair p of float64: the product of the two
\* polynomials in c, reduced by c^4 = 4c^2 - 2, c^5 = 4c^3 - 2c,
\* c^6 = 14c^2 - 8
Product[p \in Float \X Float] ==
    LET x == p[1]
        y == p[2]
        d0 == x[1] * y[1]
        d1 == x[1] * y[2] + x[2] * y[1]
        d2 == x[1] * y[3] + x[2] * y[2] + x[3] * y[1]
        d3 == x[1] * y[4] + x[2] * y[3] + x[3] * y[2] + x[4] * y[1]
        d4 == x[2] * y[4] + x[3] * y[3] + x[4] * y[2]
        d5 == x[3] * y[4] + x[4] * y[3]
        d6 == x[4] * y[4]
    IN  IF IsOpaque(x) \/ IsOpaque(y) THEN Opaque
        ELSE Norm[<<d0 - 2 * d4 - 8 * d6,
                    d1 - 2 * d5,
                    d2 + 4 * d4 + 14 * d6,
                    d3 + 4 * d5,
                    x[5] + y[5]>>]

Negation[x \in Float] ==
    IF IsOpaque(x) THEN Opaque ELSE <<-x[1], -x[2], -x[3], -x[4], x[5]>>

\* float64 +
FAdd(x, y) == Sum[<<x, y>>]

\* float64 unary -
FNeg(x) == Negation[x]

\* float64 -
FSub(x, y) == Sum[<<x, Negation[y]>>]

\* float64 *
FMul(x, y) == Product[<<x, y>>]

\* cos(k * pi/8) for k in 0..4
CosEighth(k) ==
    CASE k = 0 -> One
      [] k = 1 -> <<0, 1, 0, 0, 1>>
      [] k = 2 -> <<-2, 0, 1, 0, 1>>
      [] k = 3 -> <<0, -3, 0, 1, 1>>
      [] k = 4 -> Zero

\* cos(t * 2*pi/16) for any integer t
Cos16(t) ==
    LET r == t % 16
        s == IF r > 8 THEN 16 - r ELSE r
    IN  IF s <= 4 THEN CosEighth(s) ELSE FNeg(CosEighth(8 - s))

\* sin(t * 2*pi/16) = cos(t * 2*pi/16 - pi/2)
Sin16(t) == Cos16(t - 4)

\* math.Cos(m * 2*math.Pi / float64(n)), m an integer
Cos(m, n) == IF n > 0 /\ 16 % n = 0 THEN Cos16(m * (16 \div n)) ELSE Opaque

\* math.Sin(m * 2*math.Pi / float64(n)), m an integer
Sin(m, n) == IF n > 0 /\ 16 % n = 0 THEN Sin16(m * (16 \div n)) ELSE Opaque

\* the factor 1/n in place of 1/sqrt(n)
InvLen(n) ==
    CASE n = 1 -> One
      [] n = 2 -> <<1, 0, 0, 0, 1>>
      [] n = 4 -> <<1, 0, 0, 0, 2>>
      [] n = 8 -> <<1, 0, 0, 0, 3>>
      [] n = 16 -> <<1, 0, 0, 0, 4>>
      [] OTHER -> Opaque

\* 1.0 / math.Sqrt(float64(n))
InvSqrt(n) ==
    CASE n = 1 -> One
      [] n = 2 -> <<-2, 0, 1, 0, 1>>
      [] n = 4 -> <<1, 0, 0, 0, 1>>
      [] n = 8 -> <<-2, 0, 1, 0, 2>>
      [] n = 16 -> <<1, 0, 0, 0, 2>>
      [] OTHER -> Opaque

---------------------------------------------------------------------------
(* complex.go                                                              *)

Complex(re, im) == [Real |-> re, Imag |-> im]

Add(c, other) == Complex(FAdd(c.Real, other.Real), FAdd(c.Imag, other.Imag))

Sub(c, other) == Complex(FSub(c.Real, other.Real), FSub(c.Imag, other.Imag))

Mul(c, other) ==
    Complex(FSub(FMul(c.Real, other.Real), FMul(c.Imag, other.Imag)),
            FAdd(FMul(c.Real, other.Imag), FMul(c.Imag, other.Real)))

MulScalar(c, scalar) == Complex(FMul(c.Real, scalar), FMul(c.Imag, scalar))

---------------------------------------------------------------------------
(* State.                                                                  *)

VARIABLES
    stack,       \* the goroutine's call stack, innermost frame last
    status,      \* "running", "returned" (a direct FFT call came back),
                 \* "fatal" (stack overflow), "panic" (makeslice),
                 \* "exit0", "exit1" (the harness process ended)
    orig,        \* the buffer as it was when FFT was called
    unscaled,    \* the buffer as fft(arr) left it, before FFT scales it
    scaleCount,  \* per index, how often FFT has scaled that element
    args,        \* os.Args[1:], each argument a sequence of characters
    size,        \* main's size
    n,           \* main's n, a machine word: the set of its set bits
    stderr,      \* lines written to os.Stderr
    stdout,      \* lines written to os.Stdout
    genCalls,    \* calls of generateInputs
    fftCalls     \* calls of FFT made by main

vars == <<stack, status, orig, unscaled, scaleCount, args, size, n, stderr, stdout,
          genCalls, fftCalls>>

harnessVars == <<args, size, n, stderr, stdout, genCalls>>

CZero == Complex(Zero, Zero)

\* a fresh activation of fn on the slice arr (a slice is shared with the
\* caller: the callee's arr is handed back when it returns)
Frame(fn, pc, arr) ==
    [fn |-> fn, pc |-> pc, arr |-> arr, a0 |-> <<>>, a1 |-> <<>>,
     i |-> 0, w |-> CZero, wn |-> CZero, factor |-> Zero]

Top == stack[Len(stack)]

SetTop(f) == [stack EXCEPT ![Len(stack)] = f]

\* the caller's frame continues at pc while the callee runs
Call(pc, callee) == Append(SetTop([Top EXCEPT !.pc = pc]), callee)

Running(fn, pc) ==
    /\ status = "running"
    /\ Len(stack) > 0
    /\ Top.fn = fn
    /\ Top.pc = pc

Zeros(len) == [k \in 1..len |-> 0]

---------------------------------------------------------------------------
(* cooley_tukey.go: fft                                                    *)

\* arr[0], arr[2], ... : the first n/2 even positions
Even(arr) == [k \in 1..(Len(arr) \div 2) |-> arr[2 * (k - 1) + 1]]

\* arr[1], arr[3], ... : the first n/2 odd positions
Odd(arr) == [k \in 1..(Len(arr) \div 2) |-> arr[2 * (k - 1) + 2]]

\* the angle with the wrong sign: ang := 2*math.Pi/float64(n)
TwiddleBaseConjugate(len) == Complex(Cos(1, len), Sin(1, len))

\* wn := Complex{math.Cos(ang), math.Sin(ang)}, ang := -2*math.Pi/float64(n)
TwiddleBase(len) == Complex(Cos(-1, len), Sin(-1, len))

\* the base case tested as n == 0
IsBaseZero(len) == len = 0

\* the test of the base case: n == 1
IsBase(len) == len = 1

\* if n == 1 { return }
FftBase ==
    /\ Running("fft", "entry")
    /\ IsBase(Len(Top.arr))
    /\ stack' = SetTop([Top EXCEPT !.pc = "ret"])
    /\ UNCHANGED <<status, orig, unscaled, scaleCount, harnessVars, fftCalls>>

\* a0, a1 := the even and the odd elements
FftSplit ==
    /\ Running("fft", "entry")
    /\ ~IsBase(Len(Top.arr))
    /\ stack' = SetTop([Top EXCEPT !.a0 = Even(Top.arr), !.a1 = Odd(Top.arr),
                                   !.pc = "callA0"])
    /\ UNCHANGED <<status, orig, unscaled, scaleCount, harnessVars, fftCalls>>

\* the recursive call made on arr itself: fft(arr)
FftCallA0Whole ==
    /\ Running("fft", "callA0")
    /\ Len(stack) < MaxStack
    /\ stack' = Call("waitA0", Frame("fft", "entry", Top.arr))
    /\ UNCHANGED <<status, orig, unscaled, scaleCount, harnessVars, fftCalls>>

\* fft(a0)
FftCallA0 ==
    /\ Running("fft", "callA0")
    /\ Len(stack) < MaxStack
    /\ stack' = Call("waitA0", Frame("fft", "entry", Top.a0))
    /\ UNCHANGED <<status, orig, unscaled, scaleCount, harnessVars, fftCalls>>

\* fft(a1)
FftCallA1 ==
    /\ Running("fft", "callA1")
    /\ Len(stack) < MaxStack
    /\ stack' = Call("waitA1", Frame("fft", "entry", Top.a1))
    /\ UNCHANGED <<status, orig, unscaled, scaleCount, harnessVars, fftCalls>>

\* ang, w, wn are set up; the combine loop starts at i = 0
FftTwiddle ==
    /\ Running("fft", "combine")
    /\ stack' = SetTop([Top EXCEPT !.w = Complex(One, Zero),
                                   !.wn = TwiddleBase(Len(Top.arr)),
                                   !.i = 0,
                                   !.pc = "loop"])
    /\ UNCHANGED <<status, orig, unscaled, scaleCount, harnessVars, fftCalls>>

\* an iteration that forgets w = w.Mul(wn)
ButterflyStaleW(f) ==
    LET half == Len(f.arr) \div 2
        p == f.a0[f.i + 1]
        q == Mul(f.w, f.a1[f.i + 1])
    IN  [f EXCEPT !.arr = [f.arr EXCEPT ![f.i + 1] = Add(p, q),
                                        ![f.i + 1 + half] = Sub(p, q)],
                  !.i = f.i + 1]

\* one iteration of the combine loop
Butterfly(f) ==
    LET half == Len(f.arr) \div 2
        p == f.a0[f.i + 1]
        q == Mul(f.w, f.a1[f.i + 1])
    IN  [f EXCEPT !.arr = [f.arr EXCEPT ![f.i + 1] = Add(p, q),
                                        ![f.i + 1 + half] = Sub(p, q)],
                  !.w = Mul(f.w, f.wn),
                  !.i = f.i + 1]

FftLoop ==
    /\ Running("fft", "loop")
    /\ Top.i < Len(Top.arr) \div 2
    /\ stack' = SetTop(Butterfly(Top))
    /\ UNCHANGED <<status, orig, unscaled, scaleCount, harnessVars, fftCalls>>

\* the caller's frame once the callee, whose slice is now arr, has returned
Resume(caller, arr) ==
    CASE caller.pc = "waitA0" -> [caller EXCEPT !.a0 = arr, !.pc = "callA1"]
      [] caller.pc = "waitA1" -> [caller EXCEPT !.a1 = arr, !.pc = "combine"]
      [] caller.pc = "waitFft" -> [caller EXCEPT !.arr = arr, !.pc = "factor"]
      [] caller.pc = "waitFFT" -> [caller EXCEPT !.arr = arr, !.pc = "report"]

Return ==
    LET d == Len(stack)
    IN  [k \in 1..(d - 1) |->
            IF k = d - 1 THEN Resume(stack[k], Top.arr) ELSE stack[k]]

\* fft returns: at the base case, or when the combine loop is over
FftReturn ==
    /\ status = "running"
    /\ Len(stack) > 1
    /\ Top.fn = "fft"
    /\ \/ Top.pc = "ret"
       \/ Top.pc = "loop" /\ Top.i = Len(Top.arr) \div 2
    /\ stack' = Return
    /\ UNCHANGED <<status, orig, unscaled, scaleCount, harnessVars, fftCalls>>

---------------------------------------------------------------------------
(* cooley_tukey.go: FFT                                                    *)

\* fft(arr)
FFTCall ==
    /\ Running("FFT", "call")
    /\ Len(stack) < MaxStack
    /\ stack' = Call("waitFft", Frame("fft", "entry", Top.arr))
    /\ UNCHANGED <<status, orig, unscaled, scaleCount, harnessVars, fftCalls>>

\* factor := 1.0 / math.Sqrt(float64(len(arr)))
FFTFactor ==
    /\ Running("FFT", "factor")
    /\ stack' = SetTop([Top EXCEPT !.factor = InvSqrt(Len(Top.arr)),
                                   !.i = 0,
                                   !.pc = "scale"])
    /\ unscaled' = Top.arr
    /\ UNCHANGED <<status, orig, scaleCount, harnessVars, fftCalls>>

\* arr[i].MulScalar(factor) with the result thrown away
ScaleDiscarded(f) == [f EXCEPT !.i = f.i + 1]

\* the element scaled twice
ScaleTwice(f) ==
    [f EXCEPT !.arr = [f.arr EXCEPT ![f.i + 1] =
                          MulScalar(MulScalar(f.arr[f.i + 1], f.factor), f.factor)],
              !.i = f.i + 1]

\* arr[i] = arr[i].MulScalar(factor)
Scale(f) ==
    [f EXCEPT !.arr = [f.arr EXCEPT ![f.i + 1] = MulScalar(f.arr[f.i + 1], f.factor)],
              !.i = f.i + 1]

FFTScale ==
    /\ Running("FFT", "scale")
    /\ Top.i < Len(Top.arr)
    /\ stack' = SetTop(Scale(Top))
    /\ scaleCount' = [scaleCount EXCEPT ![Top.i + 1] = @ + 1]
    /\ UNCHANGED <<status, orig, unscaled, harnessVars, fftCalls>>

\* FFT returns to the caller of a direct call
FFTReturn ==
    /\ Running("FFT", "scale")
    /\ Top.i = Len(Top.arr)
    /\ Len(stack) = 1
    /\ stack' = SetTop([Top EXCEPT !.pc = "done"])
    /\ status' = "returned"
    /\ UNCHANGED <<orig, unscaled, scaleCount, harnessVars, fftCalls>>

\* FFT returns to main
FFTReturnMain ==
    /\ Running("FFT", "scale")
    /\ Top.i = Len(Top.arr)
    /\ Len(stack) > 1
    /\ stack' = Return
    /\ UNCHANGED <<status, orig, unscaled, scaleCount, harnessVars, fftCalls>>

\* a call that finds the stack full: the runtime's "fatal error: stack
\* overflow" ends the process
StackOverflow ==
    /\ status = "running"
    /\ Len(stack) = MaxStack
    /\ Top.fn = "fft"
    /\ Top.pc \in {"callA0", "callA1"}
    /\ status' = "fatal"
    /\ UNCHANGED <<stack, orig, unscaled, scaleCount, harnessVars, fftCalls>>

---------------------------------------------------------------------------
(* The harness: main and generateInputs.                                   *)

\* bits of Go's int on the 64-bit targets the benchmark runs on
IntBits == 64

\* log2 of the bytes of one Complex (two float64)
ElemSizeLog == 4

\* log2 of the largest allocation the runtime accepts (linux/amd64)
MaxAllocLog == 48

DigitChars == {"0", "1", "2", "3", "4", "5", "6", "7", "8", "9"}

DigitVal(ch) == CHOOSE d \in 0..9 : ToString(d) = ch

RECURSIVE StripZeros(_)
StripZeros(s) ==
    IF Len(s) > 1 /\ Head(s) = "0" THEN StripZeros(Tail(s)) ELSE s

\* the value of a digit string, most significant digit first
RECURSIVE DigitsVal(_)
DigitsVal(s) ==
    IF s = <<>> THEN 0
    ELSE 10 * DigitsVal(SubSeq(s, 1, Len(s) - 1)) + DigitVal(s[Len(s)])

\* strconv.Atoi: an optional sign, then decimal digits only; a value that
\* does not fit an int is a range error.  Twenty significant digits never
\* fit; the arguments explored have at most three or at least twenty.
Atoi(s) ==
    LET signed == Len(s) > 0 /\ s[1] \in {"+", "-"}
        body == IF signed THEN Tail(s) ELSE s
        digits == StripZeros(body)
    IN  IF body = <<>> \/ \E k \in 1..Len(body) : body[k] \notin DigitChars
        THEN [err |-> "syntax", val |-> 0]
        ELSE IF Len(digits) >= 20
        THEN [err |-> "range", val |-> 0]
        ELSE [err |-> "nil",
              val |-> IF signed /\ s[1] = "-" THEN -DigitsVal(digits)
                      ELSE DigitsVal(digits)]

\* 1 << uint(size) in an int: the bit falls off the word from IntBits on
\* (uint of a negative int is at least 2^(IntBits-1))
Shl1(count) == IF 0 <= count /\ count < IntBits THEN {count} ELSE {}

\* the word read as a signed int is negative
IsNegative(word) == (IntBits - 1) \in word

\* the word as a number (Shl1 sets at most one bit)
WordVal(word) == IF word = {} THEN 0 ELSE 2 ^ (CHOOSE b \in word : TRUE)

\* make([]f.Complex, 0, len) panics: len < 0, or len elements exceed the
\* largest allocation
MakePanics(word) ==
    \/ IsNegative(word)
    \/ \E b \in word : b + ElemSizeLog > MaxAllocLog

\* a rounded sample of the synthetic signal: not a number of Q(c)
Sample == Complex(Opaque, Opaque)

\* generateInputs(len) when make succeeds
generateInputs(len) == [k \in 1..len |-> Sample]

\* if len(os.Args) < 2: usage, exit 1
MainUsage ==
    /\ Running("main", "args")
    /\ Len(args) < 1
    /\ stderr' = Append(stderr, "usage: <prog> <size>")
    /\ status' = "exit1"
    /\ UNCHANGED <<stack, orig, unscaled, scaleCount, args, size, n, stdout, genCalls, fftCalls>>

\* the test without size < 0
SizeRejectedErrOnly(r) == r.err # "nil"

\* size, err := strconv.Atoi(os.Args[1]); err != nil || size < 0: exit 1
SizeRejected(r) == r.err # "nil" \/ r.val < 0

MainBadSize ==
    /\ Running("main", "args")
    /\ Len(args) >= 1
    /\ SizeRejected(Atoi(args[1]))
    /\ stderr' = Append(stderr, "invalid <size>; must be a non-negative integer")
    /\ status' = "exit1"
    /\ UNCHANGED <<stack, orig, unscaled, scaleCount, args, size, n, stdout, genCalls, fftCalls>>

\* n := 1 << uint(size)
MainShift ==
    /\ Running("main", "args")
    /\ Len(args) >= 1
    /\ ~SizeRejected(Atoi(args[1]))
    /\ size' = Atoi(args[1]).val
    /\ n' = Shl1(size')
    /\ stack' = SetTop([Top EXCEPT !.pc = "gen"])
    /\ UNCHANGED <<status, orig, unscaled, scaleCount, args, stderr, stdout, genCalls, fftCalls>>

\* signals := generateInputs(n)
MainGenerate ==
    /\ Running("main", "gen")
    /\ ~MakePanics(n)
    /\ genCalls' = genCalls + 1
    /\ stack' = SetTop([Top EXCEPT !.arr = generateInputs(WordVal(n)),
                                   !.pc = "callFFT"])
    /\ UNCHANGED <<status, orig, unscaled, scaleCount, args, size, n, stderr, stdout, fftCalls>>

\* generateInputs(n) panics in make: the process ends
MainGeneratePanic ==
    /\ Running("main", "gen")
    /\ MakePanics(n)
    /\ genCalls' = genCalls + 1
    /\ status' = "panic"
    /\ UNCHANGED <<stack, orig, unscaled, scaleCount, args, size, n, stderr, stdout, fftCalls>>

\* f.FFT(signals)
MainCallFFT ==
    /\ Running("main", "callFFT")
    /\ fftCalls' = fftCalls + 1
    /\ orig' = Top.arr
    /\ scaleCount' = Zeros(Len(Top.arr))
    /\ unscaled' = <<>>
    /\ stack' = Call("waitFFT", Frame("FFT", "call", Top.arr))
    /\ UNCHANGED <<status, harnessVars>>

\* fmt.Printf("execution time: ..."); main returns
MainReport ==
    /\ Running("main", "report")
    /\ stdout' = Append(stdout, "execution time")
    /\ status' = "exit0"
    /\ UNCHANGED <<stack, orig, unscaled, scaleCount, args, size, n, stderr, genCalls, fftCalls>>

---------------------------------------------------------------------------
(* Initial states: a direct call FFT(x), or a run of the harness.          *)

IsPow2(len) == \E k \in 0..30 : len = 2 ^ k

Lengths == {2 ^ k : k \in 0..MaxLog}

BadLengths == {len \in 0..MaxBadLen : ~IsPow2(len)}

Samples == {Complex(One, Zero), Complex(Zero, One), Complex(FromInt(2), FromInt(-1))}

\* the sequences of length len with at most two non-zero samples
Inputs(len) ==
    {[k \in 1..len |-> CZero]}
    \cup {[k \in 1..len |-> IF k = p THEN u ELSE CZero] :
             p \in 1..len, u \in Samples}
    \cup {[k \in 1..len |-> IF k = p THEN u ELSE IF k = q THEN v ELSE CZero] :
             <<p, q>> \in {pq \in (1..len) \X (1..len) : pq[1] < pq[2]},
             <<u, v>> \in Samples \X Samples}

\* the sequences of length len with at most one sample 1
Impulses(len) ==
    {[k \in 1..len |-> CZero]}
    \cup {[k \in 1..len |-> IF k = p THEN Complex(One, Zero) ELSE CZero] : p \in 1..len}

RECURSIVE Numeral(_)
Numeral(k) ==
    IF k < 10 THEN <<ToString(k)>> ELSE Append(Numeral(k \div 10), ToString(k % 10))

\* exponents whose 2^size no longer fits the allocator or the word
BigSizes == {45, 62, 63, 64, 65, 100}

ArgLists ==
    {<<>>}
    \cup {<<Numeral(k)>> : k \in (0..MaxExp) \cup BigSizes}
    \cup {<<Numeral(0), Numeral(7)>>}
    \cup {<< <<>> >>, << <<"x">> >>, << <<"-">> >>, << <<"-", "1">> >>,
          << <<"1", "x">> >>, << <<"1", ".", "0">> >>, << <<"+", "1">> >>,
          << <<"-", "0">> >>, << <<"0", "1">> >>, << <<"-", "6", "4">> >>,
          << [k \in 1..20 |-> "9"] >>}

InitDirect ==
    /\ \E len \in Lengths : \E x \in Inputs(len) :
          /\ stack = <<Frame("FFT", "call", x)>>
          /\ orig = x
          /\ scaleCount = Zeros(len)
    /\ args = <<>>

InitBadLength ==
    /\ \E len \in BadLengths : \E x \in Impulses(len) :
          /\ stack = <<Frame("FFT", "call", x)>>
          /\ orig = x
          /\ scaleCount = Zeros(len)
    /\ args = <<>>

InitMain ==
    /\ stack = <<Frame("main", "args", <<>>)>>
    /\ orig = <<>>
    /\ scaleCount = <<>>
    /\ args \in ArgLists

Init ==
    /\ InitDirect \/ InitBadLength \/ InitMain
    /\ status = "running"
    /\ unscaled = <<>>
    /\ size = 0
    /\ n = {}
    /\ stderr = <<>>
    /\ stdout = <<>>
    /\ genCalls = 0
    /\ fftCalls = 0

Next ==
    \/ FftBase
    \/ FftSplit
    \/ FftCallA0
    \/ FftCallA1
    \/ FftTwiddle
    \/ FftLoop
    \/ FftReturn
    \/ FFTCall
    \/ FFTFactor
    \/ FFTScale
    \/ FFTReturn
    \/ FFTReturnMain
    \/ StackOverflow
    \/ MainUsage
    \/ MainBadSize
    \/ MainShift
    \/ MainGenerate
    \/ MainGeneratePanic
    \/ MainCallFFT
    \/ MainReport

Spec == Init /\ [][Next]_vars

\* the goroutine is the only thread and is never descheduled for good
FairSpec == Spec /\ WF_vars(Next)

---------------------------------------------------------------------------
(* What the claims speak of.                                               *)

\* FFT was called directly on the buffer orig
DirectCall == stack[1].fn = "FFT"

\* the direct call has come back to its caller
Returned == status = "returned"

\* the caller's buffer
out == stack[1].arr

Tracked(x) == \A k \in 1..Len(x) : ~IsOpaque(x[k].Real) /\ ~IsOpaque(x[k].Imag)

Frames == {stack[d] : d \in 1..Len(stack)}

\* e^(-2*pi*i*m/len)
Root(m, len) == Complex(Cos(-m, len), Sin(-m, len))

\* sum over j < upto of x[j] * e^(-2*pi*i*j*k/n)
RECURSIVE DFTSum(_, _, _)
DFTSum(x, k, upto) ==
    IF upto = 0 THEN CZero
    ELSE Add(DFTSum(x, k, upto - 1),
             Mul(x[upto], Root(((upto - 1) * k) % Len(x), Len(x))))

\* the k-th coefficient of the discrete Fourier transform of x
DFT(x, k) == DFTSum(x, k, Len(x))

\* sum over the first upto elements of real^2 + imag^2
RECURSIVE EnergySum(_, _)
EnergySum(x, upto) ==
    IF upto = 0 THEN Zero
    ELSE FAdd(EnergySum(x, upto - 1),
              FAdd(FMul(x[upto].Real, x[upto].Real), FMul(x[upto].Imag, x[upto].Imag)))

Energy(x) == EnergySum(x, Len(x))

\* z^k by repeated multiplication
RECURSIVE Pow(_, _)
Pow(z, k) == IF k = 0 THEN Complex(One, Zero) ELSE Mul(Pow(z, k - 1), z)

\* the exponent k with len = 2^k
Log2(len) == CHOOSE k \in 0..30 : len = 2 ^ k

\* FFT has been called: directly, or by main
FFTActive == DirectCall \/ fftCalls > 0

\* the position of FFT's frame on the stack
FFTAt == IF DirectCall THEN 1 ELSE 2

\* FFT has come back to its caller
Back == status \in {"returned", "exit0"} \/ (~DirectCall /\ stack[1].pc = "report")

---------------------------------------------------------------------------
(* The claims.                                                             *)

C3_InvalidLengthReturns ==
    (DirectCall /\ ~IsPow2(Len(orig))) => status # "fatal"

\* C4 (as stated): for every size exponent the harness accepts, n is
\* 2^size, a positive power of two, and the sequence passed to FFT has that
\* length.
C4_LengthIsTwoToTheSize ==
    /\ (~DirectCall /\ stack[1].pc # "args") => (n = {size} /\ ~IsNegative(n))
    /\ (~DirectCall /\ fftCalls > 0) => (size <= 30 /\ Len(orig) = 2 ^ size)

\* the argument is a decimal numeral of a non-negative integer that fits an
\* int: digits only after an optional sign, and no minus unless it is zero
NonNegNumeral(s) ==
    LET signed == Len(s) > 0 /\ s[1] \in {"+", "-"}
        body == IF signed THEN Tail(s) ELSE s
    IN  /\ body # <<>>
        /\ \A k \in 1..Len(body) : body[k] \in DigitChars
        /\ (Len(s) > 0 /\ s[1] = "-") => \A k \in 1..Len(body) : body[k] = "0"
        /\ \A k \in 1..Len(body) : (Len(body) - k + 1 >= 20) => body[k] = "0"

BadArguments == Len(args) = 0 \/ ~NonNegNumeral(args[1])

Half == <<1, 0, 0, 0, 1>>

Impulse4 == <<Complex(One, Zero), CZero, CZero, CZero>>

\* C6: for n = 4 and input [(1,0), (0,0), (0,0), (0,0)], after FFT every
\* one of the four elements equals (0.5, 0).
C6_UnitImpulse ==
    (DirectCall /\ Returned /\ orig = Impulse4) =>
        out = [k \in 1..4 |-> Complex(Half, Zero)]

C6_Witness == DirectCall /\ Returned /\ orig = Impulse4

\* C7: for a single-element sequence [c], FFT leaves the buffer equal to
\* [c]: the inner routine returns at once, without splitting or writing,
\* and the normalisation multiplies by 1.
C7_SingleElement ==
    (DirectCall /\ Len(orig) = 1) =>
        /\ status \in {"running", "returned"}
        /\ Len(stack) <= 2
        /\ \A f \in Frames : f.arr = orig /\ (f.fn = "fft" => f.pc \in {"entry", "ret"})
        /\ Running("FFT", "scale") => Top.factor = One
        /\ Returned => out = orig

C7_Witness ==
    /\ DirectCall /\ Returned
    /\ orig = <<Complex(FromInt(2), FromInt(-1))>>
    /\ out = orig

\* C8: during one FFT call each element of the caller's buffer is
\* multiplied by 1/sqrt(n) exactly once, only after the outermost fft call
\* (and so every nested one) has returned; no recursive level scales.
C8_ScaledOnce ==
    FFTActive =>
        /\ \A k \in 1..Len(scaleCount) : scaleCount[k] <= 1
        /\ (\E k \in 1..Len(scaleCount) : scaleCount[k] > 0) =>
               \A f \in Frames : f.fn # "fft"
        /\ \A f \in Frames : f.fn = "fft" => f.factor = Zero
        /\ Back => \A k \in 1..Len(scaleCount) : scaleCount[k] = 1
        /\ (Len(stack) = FFTAt /\ Top.pc \in {"scale", "done"}) =>
               /\ Top.factor = InvSqrt(Len(orig))
               /\ \A k \in 1..Len(orig) :
                      Top.arr[k] = IF scaleCount[k] = 1
                                   THEN MulScalar(unscaled[k], InvSqrt(Len(orig)))
                                   ELSE unscaled[k]

C8_Witness ==
    /\ DirectCall /\ Returned
    /\ Len(orig) = 2 ^ MaxLog
    /\ \A k \in 1..Len(orig) : scaleCount[k] = 1
    /\ out # unscaled

LoopFrames == {f \in Frames : f.fn = "fft" /\ f.pc = "loop"}

\* C9 (as stated): with the iterations indexed i in [0, n/2), w after
\* iteration i equals twiddle_base^i.  (Frame field i counts the iterations
\* done, so iteration i - 1 is the last one done.)
C9_PowerAfterIteration ==
    \A f \in LoopFrames : f.i >= 1 => f.w = Pow(f.wn, f.i - 1)

\* C9 (amended): w starts at (1, 0) and is multiplied by twiddle_base =
\* (cos(-2*pi/n), sin(-2*pi/n)) after each iteration; the w that iteration
\* i uses equals twiddle_base^i, and w after iteration i equals
\* twiddle_base^(i+1).
C9_PowerInIteration ==
    \A f \in LoopFrames :
        LET len == Len(f.arr)
        IN  /\ f.i <= len \div 2
            /\ f.wn = Complex(Cos(-1, len), Sin(-1, len))
            /\ f.i = 0 => f.w = Complex(One, Zero)
            /\ f.w = Pow(f.wn, f.i)
            /\ 16 % len = 0 => f.w = Root(f.i, len)

C9_Witness ==
    \E f \in LoopFrames :
        /\ Len(f.arr) = 8
        /\ f.i = 3
        /\ f.w = Root(3, 8)
        /\ f.w # Complex(One, Zero)

\* every fft call is on a buffer of the original length halved once per
\* level of recursion, so never on an empty one, and a buffer of length 1
\* is reached after exactly log2(n) halvings
C10_Halving ==
    (FFTActive /\ IsPow2(Len(orig))) =>
        /\ status # "fatal"
        /\ Len(stack) - FFTAt <= Log2(Len(orig)) + 1
        /\ \A d \in 1..Len(stack) :
               stack[d].fn = "fft" =>
                   /\ Len(stack[d].arr) >= 1
                   /\ Len(stack[d].arr) * 2 ^ (d - FFTAt - 1) = Len(orig)
                   /\ stack[d].pc = "ret" => Len(stack[d].arr) = 1

\* C10: for every length n = 2^k, FFT eventually returns; each recursive
\* call is on a buffer of exactly half its parent's length, every branch
\* reaches the base case after exactly k halvings, and no call is made on
\* a buffer of length 0.
C10_Terminates ==
    /\ []C10_Halving
    /\ (FFTActive /\ IsPow2(Len(orig))) ~> Back

C10_Witness ==
    /\ DirectCall
    /\ Len(orig) = 2 ^ MaxLog
    /\ Len(stack) = MaxLog + 2
    /\ Top.fn = "fft" /\ Top.pc = "ret" /\ Len(Top.arr) = 1

=============================================================================
